---- MODULE Spec2Model ----
(***************************************************************************)
(* A model of parallel/distributed.py: the DistributedTrainer (one worker  *)
(* process per device, a shared result queue, a barrier per epoch), the    *)
(* port probe socket_in_use, the aggregation default_collator_fn and the   *)
(* PrefetchLoader.                                                         *)
(*                                                                         *)
(* Spec         the trainer: construction, __iter__, the worker processes  *)
(* SpecScenario the trainer on two devices with three epochs               *)
(* SpecCollate  default_collator_fn applied to bounded lists of tuples     *)
(* SpecPrefetch PrefetchLoader.__iter__ over bounded wrapped loaders       *)
(***************************************************************************)
EXTENDS Integers, Sequences, FiniteSets, TLC

\* ------------------------------------------------------------------ bounds
MaxWorld == 2      \* largest cuda.device_count() explored
MaxEpoch == 2      \* largest epoch count explored
MaxBatch == 3      \* largest loader batch size explored (from 2)
MaxOdd == 1        \* most step calls of one run that return None or raise
MaxSteps == 6      \* most step calls a run is set up for: world_size * epoch
MantBits == 3      \* significand width of the scaled-down binary float
MaxTuples == 3     \* longest list handed to default_collator_fn
MaxLen == 3        \* longest wrapped loader of a PrefetchLoader
MaxPass == 2       \* passes made over one PrefetchLoader
MaxRuns == 2       \* iterations and calls made on one trainer

\* ------------------------------------------------------------------ values
\* A scalar the step function returns: a Python float ("host"), a 0-d CPU
\* tensor ("cpu") or a 0-d CUDA tensor ("cuda"), with its numeric value.
Elem(dev, val) == [dev |-> dev, val |-> val]

\* What func(args) evaluates to, and what travels on the queue:
\* None, a bare scalar, or a tuple of scalars.
NoneVal == [kind |-> "None", elems |-> <<>>]
Scalar(e) == [kind |-> "scalar", elems |-> <<e>>]
Tuple(es) == [kind |-> "tuple", elems |-> es]

\* The step functions explored, by the shape of what they return for
\* (rank, epoch); each of them may also return None or raise in any call.
Shapes == {"hostFloat", "cpuTensor", "cudaTensor", "hostTuple", "cudaTuple"}

StepOutput(shape, rank, ep) ==
    CASE shape = "hostFloat"  -> Scalar(Elem("host", rank))
      [] shape = "cpuTensor"  -> Scalar(Elem("cpu", rank))
      [] shape = "cudaTensor" -> Scalar(Elem("cuda", rank))
      [] shape = "hostTuple"  -> Tuple(<<Elem("host", rank)>>)
      [] shape = "cudaTuple"  -> Tuple(<<Elem("cuda", rank), Elem("host", ep)>>)

isTensor(e) == e.dev \in {"cpu", "cuda"}

\* float(e.detach().cpu()): the value moves to the host as a Python float.
ToHostFloat(e) == Elem("host", e.val)

\* _runner, lines 139-150: what becomes of the step function's return value.
ConvertOutput(output) ==
    IF output.kind = "scalar" /\ isTensor(output.elems[1])
    THEN IF output.elems[1].dev = "cuda"
         THEN Tuple(<<ToHostFloat(output.elems[1])>>)
         ELSE output
    ELSE IF output.kind = "tuple"
         THEN Tuple([i \in 1..Len(output.elems) |->
                       IF isTensor(output.elems[i]) /\ output.elems[i].dev = "cuda"
                       THEN ToHostFloat(output.elems[i])
                       ELSE output.elems[i]])
         ELSE output

\* ------------------------------------------------------- float arithmetic
\* Python floats are binary floating point: a sum is rounded to the
\* significand width, ties to even.  The width is scaled down to MantBits
\* and the values are integers, so rounding happens within small numbers.
Abs(n) == IF n < 0 THEN -n ELSE n

RECURSIVE Pow2(_)
Pow2(k) == IF k = 0 THEN 1 ELSE 2 * Pow2(k - 1)

RECURSIVE RoundMag(_, _)
\* The magnitude m rounded to MantBits significant bits in units of u.
RoundMag(m, u) ==
    IF m < Pow2(MantBits) * u
    THEN LET q == m \div u
             r == m % u
         IN  IF 2 * r > u \/ (2 * r = u /\ q % 2 = 1)
             THEN (q + 1) * u
             ELSE q * u
    ELSE RoundMag(m, 2 * u)

Fl(n) == IF n < 0 THEN -RoundMag(-n, 1) ELSE RoundMag(n, 1)

FlAdd(a, b) == Fl(a + b)

RECURSIVE Gcd(_, _)
Gcd(a, b) == IF b = 0 THEN a ELSE Gcd(b, a % b)

\* Div with // written for /: the quotient is floored.
DivFloor(s, n) == << s \div n, 1 >>

\* s / n for n > 0, kept as the fraction in lowest terms <<num, den>>: the
\* rounding of the quotient is a function of s and n alone.
Div(s, n) ==
    LET g == Gcd(Abs(s), n)
    IN  IF s < 0 THEN << -(Abs(s) \div g), n \div g >>
                 ELSE << s \div g, n \div g >>

RECURSIVE SumFrom(_, _)
\* sum(e): the builtin adds left to right, starting from 0.
SumFrom(acc, e) ==
    IF e = <<>> THEN acc ELSE SumFrom(FlAdd(acc, Head(e)), Tail(e))

sum(e) == SumFrom(0, e)

\* ----------------------------------------------------- default_collator_fn
Min(S) == CHOOSE m \in S : \A n \in S : m <= n

\* zip(*x) iterates every message: a tuple is iterable, a bare float or a
\* 0-d tensor is not (TypeError).
Iterable(msg) == msg.kind = "tuple"

\* zip(*x): the columns, as many as the shortest tuple has elements.
Zip(x) ==
    IF x = <<>> THEN <<>>
    ELSE [i \in 1..Min({Len(x[j].elems) : j \in 1..Len(x)}) |->
            [j \in 1..Len(x) |-> x[j].elems[i].val]]

\* default_collator_fn without the transpose: the mean of each worker's
\* tuple instead of the mean of each position.
collator_no_zip(x) ==
    IF \E j \in 1..Len(x) : ~Iterable(x[j])
    THEN [err |-> TRUE, vals |-> <<>>]
    ELSE [err |-> FALSE,
          vals |-> [j \in 1..Len(x) |->
                      Div(sum([i \in 1..Len(x[j].elems) |-> x[j].elems[i].val]),
                          Len(x[j].elems))]]

\* tuple(sum(e) / len(e) for e in zip(*x)); err marks the TypeError.
default_collator_fn(x) ==
    IF \E j \in 1..Len(x) : ~Iterable(x[j])
    THEN [err |-> TRUE, vals |-> <<>>]
    ELSE [err |-> FALSE,
          vals |-> [i \in 1..Len(Zip(x)) |-> Div(sum(Zip(x)[i]), Len(Zip(x)[i]))]]

\* ---------------------------------------------------------- socket_in_use
\* s.bind(("localhost", port)) raises OSError when another socket holds it.
BindFails(held) == held

\* A return in a finally clause replaces the return value pending from the
\* try or except clause.
ReturnInFinally(pending, value) == value

\* socket_in_use(port), lines 229-236; held: another socket holds the port.
socket_in_use(held) ==
    LET pending == IF BindFails(held) THEN "True" ELSE "none"
    IN  ReturnInFinally(pending, FALSE)

\* ------------------------------------------------------------------ state
VARIABLES
    world_size,         \* self.world_size = cuda.device_count()
    epoch,              \* self.epoch
    trainBatch,         \* self.train_loader.batch_size
    testBatch,          \* self.test_loader.batch_size
    held,               \* another socket holds (localhost, self.port)
    shape,              \* the step function self.func, by its return shape
    mode,               \* how the trainer is run: "iter" (__iter__), "call" (__call__)
    run,                \* the runs started on this trainer, the current one included
    opc,                \* where the controlling process is
    inUse,              \* what socket_in_use returned to __init__
    nproc,              \* len(processes): ranks 0..nproc-1 were started
    buffer,             \* __iter__'s buffer
    terminate_counter,  \* __iter__'s terminate_counter
    yielded,            \* the aggregates __iter__ has yielded so far
    exitKind,           \* how the spawn/drain region was left
    queue,              \* self._queue
    wpc,                \* per rank: where the worker process is
    wepoch,             \* per rank: rounds of _runner's loop made so far
    ingroup,            \* per rank: member of the process group
    failed,             \* per rank: an exception ended _worker's try block
    noneSeen,           \* some step call returned None
    puts,               \* result messages put on the queue so far
    calls,              \* step calls that returned a value other than None
    odd,                \* step calls that returned None or raised
    sent,               \* per rank: sentinels the worker has put
    qsrc,               \* per message of the queue: <<run, rank, epoch>> of its put
    bsrc,               \* the same for the results in buffer
    ysrc,               \* per aggregate yielded: the results it was computed from
    seen                \* <<run, rank>> of the sentinels counted

tvars == <<world_size, epoch, trainBatch, testBatch, held, shape, mode, run,
           opc, inUse, nproc, buffer, terminate_counter, yielded, exitKind,
           queue, wpc, wepoch, ingroup, failed, noneSeen, puts, calls, odd,
           sent, qsrc, bsrc, ysrc, seen>>


AllRanks == 0..(MaxWorld - 1)

\* The two ways to run a trainer: for x in trainer, and trainer().
Modes == {"iter", "call"}
Ranks == 0..(world_size - 1)

\* p.is_alive(): started and neither exited nor terminated.
is_alive(rank) == wpc[rank] \notin {"unstarted", "exited", "killed"}

started(rank) == wpc[rank] # "unstarted"

\* The state after the caller has chosen the arguments of the constructor,
\* on a machine of one of the device counts worlds.
TrainerStart(worlds, epochs) ==
    /\ world_size \in worlds
    /\ epoch \in epochs
    /\ trainBatch \in 2..MaxBatch
    /\ testBatch \in 2..MaxBatch
    /\ held \in BOOLEAN
    /\ shape \in Shapes
    /\ mode \in Modes
    /\ run = 1
    /\ opc = "new"
    /\ inUse = FALSE
    /\ nproc = 0
    /\ buffer = <<>>
    /\ terminate_counter = 0
    /\ yielded = <<>>
    /\ exitKind = "none"
    /\ queue = <<>>
    /\ wpc = [r \in AllRanks |-> "unstarted"]
    /\ wepoch = [r \in AllRanks |-> 0]
    /\ ingroup = [r \in AllRanks |-> FALSE]
    /\ failed = [r \in AllRanks |-> FALSE]
    /\ noneSeen = FALSE
    /\ puts = 0
    /\ calls = 0
    /\ odd = 0
    /\ sent = [r \in AllRanks |-> 0]
    /\ qsrc = <<>>
    /\ bsrc = <<>>
    /\ ysrc = <<>>
    /\ seen = {}

config == <<world_size, epoch, trainBatch, testBatch, held, shape, mode, run>>
ovars == <<opc, inUse, nproc, buffer, terminate_counter, yielded, exitKind,
           bsrc, ysrc, seen>>
wvars == <<wpc, wepoch, ingroup, failed, noneSeen, puts, calls, odd, sent>>

\* ------------------------------------------------- the controlling process
\* DistributedTrainer.__init__, lines 97-106.
Construct ==
    /\ opc = "new"
    /\ inUse' = socket_in_use(held)
    /\ opc' = IF socket_in_use(held) THEN "failed" ELSE "ready"
    /\ UNCHANGED <<config, nproc, buffer, terminate_counter, yielded,
                   exitKind, bsrc, ysrc, seen, queue, qsrc, wvars>>

\* __iter__, lines 170-171: the first next() enters the generator.
IterStart ==
    /\ opc = "ready"
    /\ mode = "iter"
    /\ opc' = "spawn"
    /\ nproc' = 0
    /\ buffer' = <<>>
    /\ terminate_counter' = 0
    /\ UNCHANGED <<config, inUse, yielded, exitKind, bsrc, ysrc, seen,
                   queue, qsrc, wvars>>

\* __call__, lines 202-203.
CallStart ==
    /\ opc = "ready"
    /\ mode = "call"
    /\ opc' = "spawn"
    /\ nproc' = 0
    /\ terminate_counter' = 0
    /\ UNCHANGED <<config, inUse, buffer, yielded, exitKind, bsrc, ysrc, seen,
                   queue, qsrc, wvars>>

\* lines 173-179 (and 205-211): one round of the spawn loop, p.start()
\* succeeding.
Spawn ==
    /\ opc = "spawn"
    /\ nproc < world_size
    /\ wpc' = [wpc EXCEPT ![nproc] = "spawned"]
    /\ nproc' = nproc + 1
    /\ opc' = IF nproc + 1 = world_size THEN "drain" ELSE "spawn"
    /\ UNCHANGED <<config, inUse, buffer, terminate_counter, yielded,
                   exitKind, bsrc, ysrc, seen, queue, qsrc, wepoch, ingroup,
                   failed, noneSeen, puts, calls, odd, sent>>

\* line 178 (and 210): p.start() raises (the system cannot start another
\* process); the exception leaves the try block.
SpawnFail ==
    /\ opc = "spawn"
    /\ nproc < world_size
    /\ opc' = "cleanup"
    /\ exitKind' = "raise"
    /\ UNCHANGED <<config, inUse, nproc, buffer, terminate_counter, yielded,
                   bsrc, ysrc, seen, queue, qsrc, wvars>>

\* The elements of a list.
Range(l) == {l[i] : i \in 1..Len(l)}

\* lines 181-190: one round of the drain loop, self._queue.get() returning.
Get ==
    /\ opc = "drain"
    /\ mode = "iter"
    /\ terminate_counter < world_size
    /\ queue # <<>>
    /\ queue' = Tail(queue)
    /\ qsrc' = Tail(qsrc)
    /\ LET output == Head(queue)
           full == Append(buffer, output)
           from == Head(qsrc)
       IN  IF output.kind = "None"
           THEN /\ terminate_counter' = terminate_counter + 1
                /\ seen' = seen \cup {<<from[1], from[2]>>}
                /\ opc' = IF terminate_counter + 1 < world_size
                          THEN "drain" ELSE "cleanup"
                /\ exitKind' = IF terminate_counter + 1 < world_size
                               THEN exitKind ELSE "complete"
                /\ UNCHANGED <<buffer, yielded, bsrc, ysrc>>
           ELSE IF Len(full) = world_size
                THEN IF default_collator_fn(full).err
                     THEN /\ opc' = "cleanup"
                          /\ exitKind' = "raise"
                          /\ buffer' = full
                          /\ bsrc' = Append(bsrc, from)
                          /\ UNCHANGED <<terminate_counter, yielded, ysrc, seen>>
                     ELSE /\ opc' = "yield"
                          /\ buffer' = default_collator_fn(full).vals
                          /\ yielded' = Append(yielded, default_collator_fn(full).vals)
                          /\ bsrc' = Append(bsrc, from)
                          /\ ysrc' = Append(ysrc, Range(Append(bsrc, from)))
                          /\ UNCHANGED <<terminate_counter, exitKind, seen>>
                ELSE /\ buffer' = full
                     /\ bsrc' = Append(bsrc, from)
                     /\ UNCHANGED <<opc, terminate_counter, yielded, exitKind,
                                    ysrc, seen>>
    /\ UNCHANGED <<config, inUse, nproc, wvars>>

\* As lines 214-217 with the message kept for a round, the way __iter__
\* keeps it.
Keep(buf, output) == Append(buf, output)

\* lines 214-217: __call__ has no buffer; a message that is not the sentinel
\* is dropped.
Discard(buf, output) == buf

\* lines 213-217: one round of the drain loop of __call__.
CallGet ==
    /\ opc = "drain"
    /\ mode = "call"
    /\ terminate_counter < world_size
    /\ queue # <<>>
    /\ queue' = Tail(queue)
    /\ qsrc' = Tail(qsrc)
    /\ LET output == Head(queue)
           from == Head(qsrc)
       IN  IF output.kind = "None"
           THEN /\ terminate_counter' = terminate_counter + 1
                /\ seen' = seen \cup {<<from[1], from[2]>>}
                /\ opc' = IF terminate_counter + 1 < world_size
                          THEN "drain" ELSE "cleanup"
                /\ exitKind' = IF terminate_counter + 1 < world_size
                               THEN exitKind ELSE "complete"
                /\ UNCHANGED <<buffer, bsrc>>
           ELSE /\ buffer' = Discard(buffer, output)
                /\ bsrc' = Discard(bsrc, from)
                /\ UNCHANGED <<opc, terminate_counter, exitKind, seen>>
    /\ UNCHANGED <<config, inUse, nproc, yielded, ysrc, wvars>>

\* line 190: the consumer asks for the next value; the generator resumes.
Resume ==
    /\ opc = "yield"
    /\ buffer' = <<>>
    /\ bsrc' = <<>>
    /\ opc' = "drain"
    /\ UNCHANGED <<config, inUse, nproc, terminate_counter, yielded,
                   exitKind, ysrc, seen, queue, qsrc, wvars>>

\* line 189: the consumer stops iterating; GeneratorExit is raised at the
\* yield and the finally clause runs.
Close ==
    /\ opc = "yield"
    /\ opc' = "cleanup"
    /\ exitKind' = "cancel"
    /\ UNCHANGED <<config, inUse, nproc, buffer, terminate_counter, yielded,
                   bsrc, ysrc, seen, queue, qsrc, wvars>>

\* The test of line 193 inverted: only a process that is not alive is
\* terminated.
TerminateJoinNotAlive(w, rank) ==
    IF w[rank] \in {"unstarted", "exited", "killed"}
    THEN [w EXCEPT ![rank] = "killed"] ELSE w

\* lines 193-195 for the process of one rank, w holding every process's
\* place: p.terminate() and p.join() when p.is_alive().
TerminateJoin(w, rank) ==
    IF w[rank] \notin {"unstarted", "exited", "killed"}
    THEN [w EXCEPT ![rank] = "killed"] ELSE w

RECURSIVE TerminateAll(_, _, _)
\* lines 192-195: the loop over processes, from index i.
TerminateAll(w, i, n) ==
    IF i >= n THEN w ELSE TerminateAll(TerminateJoin(w, i), i + 1, n)

\* lines 191-199 (and 218-226): the finally clause: every process still
\* alive is terminated and joined, the cache is emptied, the line printed.
Cleanup ==
    /\ opc = "cleanup"
    /\ wpc' = TerminateAll(wpc, 0, nproc)
    /\ opc' = "done"
    /\ UNCHANGED <<config, inUse, nproc, buffer, terminate_counter, yielded,
                   exitKind, bsrc, ysrc, seen, queue, qsrc, wepoch, ingroup,
                   failed, noneSeen, puts, calls, odd, sent>>

\* The caller runs the trainer once more: __iter__ or __call__ starts from
\* new locals and new Process objects; self._queue (line 105) is the queue
\* made at construction, with whatever it still holds.
Rerun ==
    /\ opc = "done"
    /\ run < MaxRuns
    /\ run' = run + 1
    /\ mode' \in Modes
    /\ opc' = "ready"
    /\ nproc' = 0
    /\ buffer' = <<>>
    /\ bsrc' = <<>>
    /\ terminate_counter' = 0
    /\ seen' = {}
    /\ yielded' = <<>>
    /\ ysrc' = <<>>
    /\ exitKind' = "none"
    /\ wpc' = [r \in AllRanks |-> "unstarted"]
    /\ wepoch' = [r \in AllRanks |-> 0]
    /\ ingroup' = [r \in AllRanks |-> FALSE]
    /\ failed' = [r \in AllRanks |-> FALSE]
    /\ sent' = [r \in AllRanks |-> 0]
    /\ noneSeen' = FALSE
    /\ puts' = 0
    /\ calls' = 0
    /\ UNCHANGED <<world_size, epoch, trainBatch, testBatch, held, shape,
                   inUse, queue, qsrc, odd>>

\* ------------------------------------------------------ a worker process
\* wpc: "unstarted", "spawned" (in init_process_group), "joined" (in
\* _runner before the loop), "loop" (in the loop: wepoch rounds made, the
\* barrier of round wepoch entered), "exiting" (the target has ended),
\* "exited", "killed".

\* _worker, lines 158-163: init_process_group is a rendezvous of all
\* world_size ranks over tcp://localhost:port; it returns once every rank
\* has been started and has called it.
Join(rank) ==
    /\ wpc[rank] = "spawned"
    /\ ~held
    /\ \A r \in Ranks : started(r) /\ wpc[r] # "killed"
    /\ wpc' = [wpc EXCEPT ![rank] = "joined"]
    /\ ingroup' = [ingroup EXCEPT ![rank] = TRUE]
    /\ UNCHANGED <<config, ovars, queue, qsrc, wepoch, failed, noneSeen, puts,
                   calls, odd, sent>>

\* The places of the puts that took q to q2, added to the places qs: every
\* message a worker put in this step carries src.
Sourced(qs, q, q2, src) ==
    IF Len(q2) > Len(q) THEN Append(qs, src) ELSE qs

\* _worker, lines 165-167, in a worker that joined the group: the group is
\* left and the sentinel is put.
Finally(q) == Append(q, NoneVal)

\* lines 165-167 in a worker that never joined: destroy_process_group() is
\* called on a group that does not exist; the library either returns or
\* raises, and a raise skips the put of line 167.
FinallyNoGroup(q) == {Append(q, NoneVal), q}

\* lines 158-167: the rendezvous fails, the port being held by another
\* socket; the exception leaves the try block and the finally clause runs.
JoinFail(rank) ==
    /\ wpc[rank] = "spawned"
    /\ held
    /\ failed' = [failed EXCEPT ![rank] = TRUE]
    /\ queue' \in FinallyNoGroup(queue)
    /\ qsrc' = Sourced(qsrc, queue, queue', <<run, rank, 0>>)
    /\ sent' = [sent EXCEPT ![rank] = sent[rank] + (Len(queue') - Len(queue))]
    /\ wpc' = [wpc EXCEPT ![rank] = "exiting"]
    /\ UNCHANGED <<config, ovars, wepoch, ingroup, noneSeen, puts, calls, odd>>

\* DistributedDataLoader.__init__, line 50, for a loader of this batch size.
BatchDivides(batch_size, device_count) == batch_size % device_count = 0

\* _runner, lines 109-129: the model is moved and wrapped, the two loaders
\* are sharded (line 50 asserts) and wrapped; a failed assertion leaves
\* the try block and the finally clause runs.
Build(rank) ==
    /\ wpc[rank] = "joined"
    /\ IF BatchDivides(trainBatch, world_size) /\ BatchDivides(testBatch, world_size)
       THEN /\ wpc' = [wpc EXCEPT ![rank] = "loop"]
            /\ UNCHANGED <<failed, ingroup, queue, qsrc, sent>>
       ELSE /\ failed' = [failed EXCEPT ![rank] = TRUE]
            /\ ingroup' = [ingroup EXCEPT ![rank] = FALSE]
            /\ queue' = Finally(queue)
            /\ qsrc' = Sourced(qsrc, queue, queue', <<run, rank, 0>>)
            /\ sent' = [sent EXCEPT ![rank] = sent[rank] + 1]
            /\ wpc' = [wpc EXCEPT ![rank] = "exiting"]
    /\ UNCHANGED <<config, ovars, wepoch, noneSeen, puts, calls, odd>>

\* dist.barrier() taken out of line 154: no rank waits for another.
BarrierAbsent(rank) == TRUE

\* line 154: dist.barrier() returns once every rank of the group has
\* entered the barrier of the same round (before the first round there is
\* none to wait for).
BarrierOpen(rank) == \A r \in Ranks : wepoch[r] >= wepoch[rank]

\* line 130: the loop goes into its next round.
NextRound(rank) ==
    /\ wpc[rank] = "loop"
    /\ BarrierOpen(rank)
    /\ wepoch[rank] < epoch

\* lines 152-153.
PutOutput(q, output) == IF output.kind # "None" THEN Append(q, output) ELSE q

\* _runner, lines 130-154: one round in which the step function returns a
\* value: it is converted and put, and the barrier is entered.
StepValue(rank) ==
    /\ NextRound(rank)
    /\ queue' = PutOutput(queue,
                    ConvertOutput(StepOutput(shape, rank, wepoch[rank] + 1)))
    /\ qsrc' = Sourced(qsrc, queue, queue', <<run, rank, wepoch[rank] + 1>>)
    /\ puts' = puts + (Len(queue') - Len(queue))
    /\ calls' = calls + 1
    /\ wepoch' = [wepoch EXCEPT ![rank] = wepoch[rank] + 1]
    /\ UNCHANGED <<config, ovars, wpc, ingroup, failed, noneSeen, odd, sent>>

\* the same, the step function returning None.
StepNone(rank) ==
    /\ NextRound(rank)
    /\ odd < MaxOdd
    /\ odd' = odd + 1
    /\ queue' = PutOutput(queue, ConvertOutput(NoneVal))
    /\ qsrc' = Sourced(qsrc, queue, queue', <<run, rank, wepoch[rank] + 1>>)
    /\ puts' = puts + (Len(queue') - Len(queue))
    /\ noneSeen' = TRUE
    /\ wepoch' = [wepoch EXCEPT ![rank] = wepoch[rank] + 1]
    /\ UNCHANGED <<config, ovars, wpc, ingroup, failed, calls, sent>>

\* lines 130-137 and 165-167: one round in which the step function
\* raises: the exception leaves _runner and the finally clause runs.
StepRaise(rank) ==
    /\ NextRound(rank)
    /\ odd < MaxOdd
    /\ odd' = odd + 1
    /\ failed' = [failed EXCEPT ![rank] = TRUE]
    /\ ingroup' = [ingroup EXCEPT ![rank] = FALSE]
    /\ queue' = Finally(queue)
    /\ qsrc' = Sourced(qsrc, queue, queue', <<run, rank, 0>>)
    /\ sent' = [sent EXCEPT ![rank] = sent[rank] + 1]
    /\ wpc' = [wpc EXCEPT ![rank] = "exiting"]
    /\ UNCHANGED <<config, ovars, wepoch, noneSeen, puts, calls>>

\* Finish with the loop of line 130 ending after any round.
FinishAnyRound(rank) ==
    /\ wpc[rank] = "loop"
    /\ BarrierOpen(rank)
    /\ ingroup' = [ingroup EXCEPT ![rank] = FALSE]
    /\ queue' = Finally(queue)
    /\ qsrc' = Sourced(qsrc, queue, queue', <<run, rank, 0>>)
    /\ sent' = [sent EXCEPT ![rank] = sent[rank] + 1]
    /\ wpc' = [wpc EXCEPT ![rank] = "exiting"]
    /\ UNCHANGED <<config, ovars, wepoch, failed, noneSeen, puts, calls, odd>>

\* lines 130 and 165-167: the barrier of the last round returns, the loop
\* is over, _runner returns and the finally clause runs.
Finish(rank) ==
    /\ wpc[rank] = "loop"
    /\ BarrierOpen(rank)
    /\ wepoch[rank] = epoch
    /\ ingroup' = [ingroup EXCEPT ![rank] = FALSE]
    /\ queue' = Finally(queue)
    /\ qsrc' = Sourced(qsrc, queue, queue', <<run, rank, 0>>)
    /\ sent' = [sent EXCEPT ![rank] = sent[rank] + 1]
    /\ wpc' = [wpc EXCEPT ![rank] = "exiting"]
    /\ UNCHANGED <<config, ovars, wepoch, failed, noneSeen, puts, calls, odd>>

\* the target has returned or raised: the process ends.
Exit(rank) ==
    /\ wpc[rank] = "exiting"
    /\ wpc' = [wpc EXCEPT ![rank] = "exited"]
    /\ UNCHANGED <<config, ovars, queue, qsrc, wepoch, ingroup, failed,
                   noneSeen, puts, calls, odd, sent>>

\* The trainer's variables while another component is explored.
TrainerParked ==
    /\ world_size = 1
    /\ epoch = 1
    /\ trainBatch = 2
    /\ testBatch = 2
    /\ held = FALSE
    /\ shape = "hostTuple"
    /\ mode = "iter"
    /\ run = 1
    /\ opc = "new"
    /\ inUse = FALSE
    /\ nproc = 0
    /\ buffer = <<>>
    /\ terminate_counter = 0
    /\ yielded = <<>>
    /\ exitKind = "none"
    /\ queue = <<>>
    /\ wpc = [r \in AllRanks |-> "unstarted"]
    /\ wepoch = [r \in AllRanks |-> 0]
    /\ ingroup = [r \in AllRanks |-> FALSE]
    /\ failed = [r \in AllRanks |-> FALSE]
    /\ noneSeen = FALSE
    /\ puts = 0
    /\ calls = 0
    /\ odd = 0
    /\ sent = [r \in AllRanks |-> 0]
    /\ qsrc = <<>>
    /\ bsrc = <<>>
    /\ ysrc = <<>>
    /\ seen = {}

\* ------------------------------------- default_collator_fn on its own
VARIABLES
    cx,       \* the list of worker tuples, in one order of arrival
    cperm,    \* the same tuples in another order of arrival
    cpc,      \* "input" until the function has been applied
    cres,     \* default_collator_fn(cx)
    cresp     \* default_collator_fn(cperm)

cvars == <<cx, cperm, cpc, cres, cresp>>

HostTuple(vals) == Tuple([i \in 1..Len(vals) |-> Elem("host", vals[i])])

\* The worker tuples explored: the values are floats of integer value.
SampleTuples ==
    {HostTuple(<<1, 2>>), HostTuple(<<3, 4>>), HostTuple(<<8, 1>>),
     HostTuple(<<-8, 3>>), HostTuple(<<1, 8>>)}

NoResult == [err |-> FALSE, vals |-> <<>>]

CollateInit ==
    /\ \E n \in 1..MaxTuples : cx \in [1..n -> SampleTuples]
    /\ cperm = cx
    /\ cpc = "input"
    /\ cres = NoResult
    /\ cresp = NoResult

CollateParked ==
    /\ cx = <<>>
    /\ cperm = <<>>
    /\ cpc = "input"
    /\ cres = NoResult
    /\ cresp = NoResult

\* Two results arrive in the other order.
Swap(l, i, j) ==
    [k \in 1..Len(l) |-> IF k = i THEN l[j] ELSE IF k = j THEN l[i] ELSE l[k]]

Reorder ==
    /\ cpc = "input"
    /\ \E i \in 1..Len(cperm) : \E j \in (i + 1)..Len(cperm) :
          cperm' = Swap(cperm, i, j)
    /\ UNCHANGED <<cx, cpc, cres, cresp>>

\* default_collator_fn is applied to both orders of arrival.
Collate ==
    /\ cpc = "input"
    /\ cres' = default_collator_fn(cx)
    /\ cresp' = default_collator_fn(cperm)
    /\ cpc' = "done"
    /\ UNCHANGED <<cx, cperm>>

\* ------------------------------------------------------- PrefetchLoader
VARIABLES
    loader,     \* self.loader: the batches the wrapped loader produces
    ppc,        \* where __iter__'s generator is
    pos,        \* the batches the for loop has taken from the wrapped loader
    first,      \* __iter__'s first
    next_data,  \* __iter__'s next_data
    data,       \* __iter__'s data
    pyielded,   \* the batches this pass has yielded
    prev,       \* the batches the pass before yielded
    pass,       \* the passes started
    trace       \* this pass's stream operations and yields, in program order

pvars == <<loader, ppc, pos, first, next_data, data, pyielded, prev, pass,
           trace>>

\* A batch of the wrapped loader: a CPU tensor and an item that is no tensor.
Batch(id) == <<Elem("cpu", id), Elem("host", id)>>

BatchIds == {1, 2}

\* A local variable that no assignment has bound yet.
Unbound == <<Elem("unbound", 0)>>

\* None, the initial next_data.
NoData == <<>>

\* _to_cuda, lines 266-270: tensors move to the device, the rest passes.
to_cuda(batch) ==
    [i \in 1..Len(batch) |->
        IF isTensor(batch[i]) THEN Elem("cuda", batch[i].val) ELSE batch[i]]

\* lines 253-254: the transfer of the k-th batch is issued on self.stream.
Issue(tr, k) == Append(tr, <<"transfer", k>>)

\* Line 261 left out: the main stream is given no dependency.
NoWaitStream(tr, k) == tr

\* line 261: the main stream is made to wait for what self.stream holds,
\* the transfers of batches 1..k.
WaitStream(tr, k) == Append(tr, <<"wait", k>>)

\* lines 257 and 264: the m-th yield of the pass hands data to the consumer.
Hand(tr, m) == Append(tr, <<"yield", m>>)

PrefetchInit ==
    /\ \E n \in 0..MaxLen : loader \in [1..n -> {Batch(id) : id \in BatchIds}]
    /\ ppc = "idle"
    /\ pos = 0
    /\ first = TRUE
    /\ next_data = NoData
    /\ data = Unbound
    /\ pyielded = <<>>
    /\ prev = <<>>
    /\ pass = 0
    /\ trace = <<>>

PrefetchParked ==
    /\ loader = <<>>
    /\ ppc = "idle"
    /\ pos = 0
    /\ first = TRUE
    /\ next_data = NoData
    /\ data = Unbound
    /\ pyielded = <<>>
    /\ prev = <<>>
    /\ pass = 0
    /\ trace = <<>>

\* lines 249-250: a pass begins (the first, or one more after a pass ended).
PStart ==
    /\ ppc \in {"idle", "end"}
    /\ pass < MaxPass
    /\ pass' = pass + 1
    /\ prev' = pyielded
    /\ pyielded' = <<>>
    /\ first' = TRUE
    /\ next_data' = NoData
    /\ data' = Unbound
    /\ pos' = 0
    /\ ppc' = "loop"
    /\ trace' = <<>>
    /\ UNCHANGED loader

\* lines 252-262, the first round: the batch is transferred, nothing is
\* yielded, the main stream waits and data takes the batch.
PFirst ==
    /\ ppc = "loop"
    /\ pos < Len(loader)
    /\ first
    /\ next_data' = to_cuda(loader[pos + 1])
    /\ first' = FALSE
    /\ data' = to_cuda(loader[pos + 1])
    /\ pos' = pos + 1
    /\ trace' = WaitStream(Issue(trace, pos + 1), pos + 1)
    /\ UNCHANGED <<loader, ppc, pyielded, prev, pass>>

\* lines 252-257, a later round: the batch is transferred and the batch
\* before it is yielded.
PYield ==
    /\ ppc = "loop"
    /\ pos < Len(loader)
    /\ ~first
    /\ next_data' = to_cuda(loader[pos + 1])
    /\ pyielded' = Append(pyielded, data)
    /\ pos' = pos + 1
    /\ ppc' = "suspended"
    /\ trace' = Hand(Issue(trace, pos + 1), Len(pyielded) + 1)
    /\ UNCHANGED <<loader, first, data, prev, pass>>

\* lines 261-262: the consumer asks for the next batch; the main stream
\* waits for the transfer stream and data takes the transferred batch.
PResume ==
    /\ ppc = "suspended"
    /\ data' = next_data
    /\ ppc' = "loop"
    /\ trace' = WaitStream(trace, pos)
    /\ UNCHANGED <<loader, pos, first, next_data, pyielded, prev, pass>>

\* line 264: the loop is over; data is yielded, or, no assignment having
\* bound it, reading it raises UnboundLocalError.
PLast ==
    /\ ppc = "loop"
    /\ pos = Len(loader)
    /\ IF data = Unbound
       THEN /\ ppc' = "error"
            /\ UNCHANGED <<pyielded, trace>>
       ELSE /\ ppc' = "last"
            /\ pyielded' = Append(pyielded, data)
            /\ trace' = Hand(trace, Len(pyielded) + 1)
    /\ UNCHANGED <<loader, pos, first, next_data, data, prev, pass>>

\* the consumer asks once more and the generator returns.
PEnd ==
    /\ ppc = "last"
    /\ ppc' = "end"
    /\ UNCHANGED <<loader, pos, first, next_data, data, pyielded, prev, pass,
                   trace>>

\* ------------------------------------------------------- suppress_output
\* One step call of _runner, lines 133-137, in the process of one rank.
VARIABLES
    srank,       \* the rank of the process
    before,      \* <<sys.stdout, sys.stderr>> as they were before the call
    sys_stdout,  \* sys.stdout
    sys_stderr,  \* sys.stderr
    stdout,      \* suppress_output's local stdout
    stderr,      \* suppress_output's local stderr
    spc,         \* "before", "call" (self.func is running), "after"
    written,     \* where what self.func printed went: <<stream, sink>>
    outcome      \* how the call ended: "returned", "raised"

svars == <<srank, before, sys_stdout, sys_stderr, stdout, stderr, spc,
           written, outcome>>

\* The objects sys.stdout and sys.stderr may be bound to before the call.
Streams == {"terminal", "file", "pipe"}

\* open(os.devnull, "w"), line 24.
devnull == "devnull"

SuppressInit ==
    /\ srank \in AllRanks
    /\ before \in Streams \X Streams
    /\ sys_stdout = before[1]
    /\ sys_stderr = before[2]
    /\ stdout = "unset"
    /\ stderr = "unset"
    /\ spc = "before"
    /\ written = {}
    /\ outcome = "none"

SuppressParked ==
    /\ srank = 0
    /\ before = <<"terminal", "terminal">>
    /\ sys_stdout = "terminal"
    /\ sys_stderr = "terminal"
    /\ stdout = "unset"
    /\ stderr = "unset"
    /\ spc = "before"
    /\ written = {}
    /\ outcome = "none"

\* lines 133-134: on rank 0 self.func is called as it is.
CallPlain ==
    /\ spc = "before"
    /\ srank = 0
    /\ spc' = "call"
    /\ UNCHANGED <<srank, before, sys_stdout, sys_stderr, stdout, stderr,
                   written, outcome>>

\* lines 135-136 and 24-30: on another rank the context manager is entered:
\* both streams are saved and pointed to devnull.
CallSuppressed ==
    /\ spc = "before"
    /\ srank # 0
    /\ stdout' = sys_stdout
    /\ stderr' = sys_stderr
    /\ sys_stdout' = devnull
    /\ sys_stderr' = devnull
    /\ spc' = "call"
    /\ UNCHANGED <<srank, before, written, outcome>>

\* self.func prints to standard output or to standard error.
FuncPrints ==
    /\ spc = "call"
    /\ \/ written' = written \cup {<<"stdout", sys_stdout>>}
       \/ written' = written \cup {<<"stderr", sys_stderr>>}
    /\ UNCHANGED <<srank, before, sys_stdout, sys_stderr, stdout, stderr, spc,
                   outcome>>

\* Lines 32-33 left out: the streams stay as the call left them.
no_restore(out, err, saved_out, saved_err) == <<out, err>>

\* lines 31-33: the finally clause of suppress_output; the pair is
\* <<sys.stdout, sys.stderr>> after it.
restore(out, err, saved_out, saved_err) == <<saved_out, saved_err>>

\* What follows the call of self.func: on rank 0 nothing, on another rank
\* the finally clause of suppress_output.
AfterCall(how) ==
    /\ spc = "call"
    /\ spc' = "after"
    /\ outcome' = how
    /\ IF srank = 0
       THEN UNCHANGED <<sys_stdout, sys_stderr>>
       ELSE /\ sys_stdout' = restore(sys_stdout, sys_stderr, stdout, stderr)[1]
            /\ sys_stderr' = restore(sys_stdout, sys_stderr, stdout, stderr)[2]
    /\ UNCHANGED <<srank, before, stdout, stderr, written>>

\* lines 134 and 137: self.func returns.
FuncReturns == AfterCall("returned")

\* lines 134 and 137: self.func raises; the exception passes through the
\* with statement.
FuncRaises == AfterCall("raised")

\* ---------------------------------------------------------- specifications
vars == <<tvars, cvars, pvars, svars>>

Init ==
    /\ TrainerStart(1..MaxWorld, 1..MaxEpoch)
    /\ world_size * epoch <= MaxSteps
    /\ CollateParked
    /\ PrefetchParked
    /\ SuppressParked

others == <<cvars, pvars, svars>>

Next ==
    \/ Construct /\ UNCHANGED others
    \/ IterStart /\ UNCHANGED others
    \/ CallStart /\ UNCHANGED others
    \/ Spawn /\ UNCHANGED others
    \/ SpawnFail /\ UNCHANGED others
    \/ Get /\ UNCHANGED others
    \/ CallGet /\ UNCHANGED others
    \/ Resume /\ UNCHANGED others
    \/ Close /\ UNCHANGED others
    \/ Cleanup /\ UNCHANGED others
    \/ \E rank \in Ranks : Join(rank) /\ UNCHANGED others
    \/ \E rank \in Ranks : JoinFail(rank) /\ UNCHANGED others
    \/ \E rank \in Ranks : Build(rank) /\ UNCHANGED others
    \/ \E rank \in Ranks : StepValue(rank) /\ UNCHANGED others
    \/ \E rank \in Ranks : StepNone(rank) /\ UNCHANGED others
    \/ \E rank \in Ranks : StepRaise(rank) /\ UNCHANGED others
    \/ \E rank \in Ranks : Finish(rank) /\ UNCHANGED others
    \/ \E rank \in Ranks : Exit(rank) /\ UNCHANGED others

Spec == Init /\ [][Next]_vars

\* The trainer on two devices with three epochs.
InitScenario ==
    TrainerStart({2}, {3}) /\ CollateParked /\ PrefetchParked /\ SuppressParked

SpecScenario == InitScenario /\ [][Next]_vars

\* The trainer run up to MaxRuns times, by iteration or by call.
NextReuse ==
    \/ Next
    \/ Rerun /\ UNCHANGED others

SpecReuse == Init /\ [][NextReuse]_vars

InitCollate ==
    TrainerParked /\ CollateInit /\ PrefetchParked /\ SuppressParked

NextCollate ==
    \/ Reorder /\ UNCHANGED <<tvars, pvars, svars>>
    \/ Collate /\ UNCHANGED <<tvars, pvars, svars>>

SpecCollate == InitCollate /\ [][NextCollate]_vars

InitPrefetch ==
    TrainerParked /\ CollateParked /\ PrefetchInit /\ SuppressParked

NextPrefetch ==
    \/ PStart /\ UNCHANGED <<tvars, cvars, svars>>
    \/ PFirst /\ UNCHANGED <<tvars, cvars, svars>>
    \/ PYield /\ UNCHANGED <<tvars, cvars, svars>>
    \/ PResume /\ UNCHANGED <<tvars, cvars, svars>>
    \/ PLast /\ UNCHANGED <<tvars, cvars, svars>>
    \/ PEnd /\ UNCHANGED <<tvars, cvars, svars>>

SpecPrefetch == InitPrefetch /\ [][NextPrefetch]_vars

InitSuppress ==
    TrainerParked /\ CollateParked /\ PrefetchParked /\ SuppressInit

NextSuppress ==
    \/ CallPlain /\ UNCHANGED <<tvars, cvars, pvars>>
    \/ CallSuppressed /\ UNCHANGED <<tvars, cvars, pvars>>
    \/ FuncPrints /\ UNCHANGED <<tvars, cvars, pvars>>
    \/ FuncReturns /\ UNCHANGED <<tvars, cvars, pvars>>
    \/ FuncRaises /\ UNCHANGED <<tvars, cvars, pvars>>

SpecSuppress == InitSuppress /\ [][NextSuppress]_vars

\* ------------------------------------------------------------------ claims
WorkerNext(rank) ==
    \/ Join(rank)
    \/ JoinFail(rank)
    \/ Build(rank)
    \/ StepValue(rank)
    \/ StepNone(rank)
    \/ StepRaise(rank)
    \/ Finish(rank)
    \/ Exit(rank)

NoWorkerFailed == \A r \in Ranks : ~failed[r]

\* The iteration was run to its end by the consumer, with every process
\* started, every step call returning a value and no worker failing.
FullCleanRun ==
    /\ mode = "iter"
    /\ opc = "done"
    /\ exitKind # "cancel"
    /\ nproc = world_size
    /\ ~noneSeen
    /\ NoWorkerFailed

\* C1: when every step call on every rank returns a value other than None
\* and no worker fails, an iteration that the consumer runs to its end has
\* left the drain loop normally after yielding exactly epoch aggregates.
C1_YieldsEpochResults ==
    FullCleanRun => (exitKind = "complete" /\ Len(yielded) = epoch)

\* C2: once the cleanup has run, on any exit path, no process this
\* iteration started is alive; and a round of the cleanup made when no
\* process is alive changes no process.
NoneAlive == \A r \in AllRanks : ~is_alive(r)

C2_Teardown ==
    /\ [](opc = "done" => NoneAlive)
    /\ [][(opc = "cleanup" /\ NoneAlive) => wpc' = wpc]_vars

C2_Witness ==
    /\ opc = "done"
    /\ exitKind = "cancel"
    /\ nproc = world_size
    /\ \E r \in Ranks : wpc[r] = "killed"
    /\ \E r \in Ranks : wpc[r] = "exited"

\* C3: socket_in_use returns true exactly when the bind fails: what
\* __init__ got from it is whether another socket holds the port.
C3_ProbeReportsBind == opc # "new" => inUse = BindFails(held)

\* C4: with the port held by another socket construction fails: no trainer
\* exists and no worker process is started.
C4_HeldPortFailsConstruction ==
    held => (opc \in {"new", "failed"} /\ \A r \in AllRanks : ~started(r))

\* C5: no worker process has been started while the batch size of the
\* train or test loader is not divisible by the device count.
C5_BadBatchNeverSpawns ==
    (\E r \in AllRanks : started(r)) =>
        (BatchDivides(trainBatch, world_size) /\ BatchDivides(testBatch, world_size))

\* C6: every message on the queue is the sentinel or a tuple of host
\* scalars, and the result messages put are as many as the step calls that
\* returned something other than None.
HostTupleMsg(msg) ==
    msg.kind = "tuple" /\ \A i \in 1..Len(msg.elems) : msg.elems[i].dev = "host"

C6_QueueHoldsHostTuples ==
    /\ \A i \in 1..Len(queue) : queue[i] = NoneVal \/ HostTupleMsg(queue[i])
    /\ puts = calls

\* C8: while the drain loop waits on an empty queue, every worker that has
\* stopped having gone through its cleanup, some worker can still take a
\* step: the sentinels still missing are on their way.
C8_DrainNeverStuck ==
    (opc = "drain" /\ queue = <<>> /\ ~held) =>
        \E r \in Ranks : ENABLED WorkerNext(r)

\* C7: a pass of the PrefetchLoader never fails and yields the batches of
\* the wrapped loader, all of them, in their order, for every length from
\* 0; a second pass yields what the first did.
Payloads(batches) ==
    [k \in 1..Len(batches) |-> [i \in 1..Len(batches[k]) |-> batches[k][i].val]]

C7_PrefetchSameSequence ==
    /\ ppc # "error"
    /\ ppc \in {"last", "end"} => Payloads(pyielded) = Payloads(loader)
    /\ (ppc \in {"last", "end"} /\ pass > 1) => pyielded = prev

\* Whether every addition that sum makes on e, in its order, is exact.
ExactSums(e) ==
    \A k \in 1..Len(e) :
        FlAdd(sum(SubSeq(e, 1, k - 1)), e[k]) = sum(SubSeq(e, 1, k - 1)) + e[k]

Exact(x) == \A i \in 1..Len(Zip(x)) : ExactSums(Zip(x)[i])

RECURSIVE Total(_)
\* The sum of e as a number, without rounding.
Total(e) == IF e = <<>> THEN 0 ELSE Head(e) + Total(Tail(e))

\* The tuple of the arithmetic means of the positions.
Means(x) == [i \in 1..Len(Zip(x)) |-> Div(Total(Zip(x)[i]), Len(x))]

Scenario ==
    /\ world_size = 2
    /\ epoch = 3
    /\ shape = "hostTuple"
    /\ FullCleanRun
    /\ exitKind = "complete"

Half == <<1, 2>>

\* C10 as stated: the scenario yields 3 tuples, each (0.5, 0.5).
C10_ScenarioPairs ==
    Scenario => yielded = << <<Half, Half>>, <<Half, Half>>, <<Half, Half>> >>

\* C10, amended: the scenario yields 3 tuples, each the 1-tuple (0.5,).
C10_ScenarioSingles ==
    Scenario => yielded = << <<Half>>, <<Half>>, <<Half>> >>

C10_Witness == Scenario /\ Len(yielded) = 3

\* C11: trainer() starts world_size workers, drops every result (nothing is
\* buffered, aggregated or yielded), leaves its drain loop normally only
\* with world_size sentinels counted, and after its cleanup, on any exit
\* path, no process is alive.
C11_CallDiscards ==
    mode = "call" =>
        /\ yielded = <<>> /\ buffer = <<>>
        /\ opc \in {"drain", "yield"} => nproc = world_size
        /\ opc = "drain" => terminate_counter < world_size
        /\ exitKind = "complete" =>
              (nproc = world_size /\ terminate_counter = world_size)
        /\ exitKind \in {"none", "complete", "raise"}
        /\ opc = "done" => NoneAlive

C11_Witness ==
    /\ mode = "call"
    /\ world_size = 2
    /\ opc = "done"
    /\ exitKind = "complete"
    /\ calls = world_size * epoch
    /\ queue = <<>>

\* C12: every aggregate yielded was computed from world_size results, one
\* of each rank, all of one epoch, whichever step calls return None.
C12_RoundsAreComplete ==
    \A k \in 1..Len(ysrc) :
        /\ Cardinality(ysrc[k]) = world_size
        /\ \A r \in Ranks : \E from \in ysrc[k] : from[2] = r
        /\ \A from \in ysrc[k] : \A other \in ysrc[k] : from[3] = other[3]

\* C13: a worker whose target has ended, on any path, has left the process
\* group and has put exactly one sentinel, and no message of a worker
\* follows its sentinel on the queue.
C13_ExitEmitsSentinel ==
    /\ \A r \in Ranks :
          wpc[r] \in {"exiting", "exited"} => (sent[r] = 1 /\ ~ingroup[r])
    /\ \A i \in 1..Len(qsrc) : \A j \in (i + 1)..Len(qsrc) :
          (qsrc[i][1] = qsrc[j][1] /\ qsrc[i][2] = qsrc[j][2]) => qsrc[i][3] # 0

\* C14: a rank that has invoked the step function of epoch k+1 did so after
\* every rank finished the step call and the put of epoch k: no rank is
\* more than one round ahead of another, and a round is begun only by a
\* rank that no other rank is behind.
C14_EpochsInStep ==
    \A r \in Ranks : \A q \in Ranks : wepoch[r] <= wepoch[q] + 1

C14_Witness ==
    /\ world_size = 2
    /\ wepoch[0] = 2
    /\ wepoch[1] = 1
    /\ wpc[0] = "loop" /\ wpc[1] = "loop"

\* C15: a worker that neither fails nor is terminated goes from spawned to
\* joined, to the loop, to having left the group, to exited; a step call is
\* made only in the loop by a member of the group, for the epoch after the
\* last one, up to epoch; and a worker that ended without failing made
\* epoch step calls, each followed by its barrier.
MainPath ==
    {<<"unstarted", "spawned">>, <<"spawned", "joined">>, <<"joined", "loop">>,
     <<"loop", "exiting">>, <<"exiting", "exited">>}

C15_WorkerLifecycle ==
    /\ [](\A r \in Ranks :
            /\ (wpc[r] \in {"exiting", "exited"} /\ ~failed[r]) => wepoch[r] = epoch
            /\ ingroup[r] => wpc[r] \in {"joined", "loop", "killed"}
            /\ wpc[r] \in {"joined", "loop"} => ingroup[r])
    /\ [][\A r \in Ranks :
            /\ wepoch'[r] # wepoch[r] =>
                  /\ wepoch'[r] = wepoch[r] + 1
                  /\ wepoch'[r] <= epoch
                  /\ wpc[r] = "loop" /\ wpc'[r] = "loop"
                  /\ ingroup[r]
            /\ (wpc'[r] # wpc[r] /\ ~failed'[r] /\ wpc'[r] # "killed") =>
                  <<wpc[r], wpc'[r]>> \in MainPath]_vars

C15_Witness ==
    /\ world_size = 2
    /\ epoch = 2
    /\ \A r \in Ranks : wpc[r] = "exited" /\ ~failed[r] /\ wepoch[r] = 2

\* C16: in a pass of the PrefetchLoader, before batch k is yielded its
\* transfer has been issued and, after that, the main stream has been made
\* to wait for it; and when a batch k+1 exists its transfer has been issued
\* before batch k is yielded.
C16_OneBatchAhead ==
    \A i \in 1..Len(trace) :
        trace[i][1] = "yield" =>
            LET k == trace[i][2]
            IN  /\ \E t \in 1..(i - 1) : \E w \in (t + 1)..(i - 1) :
                      trace[t] = <<"transfer", k>> /\ trace[w] = <<"wait", k>>
                /\ k < Len(loader) =>
                      \E t \in 1..(i - 1) : trace[t] = <<"transfer", k + 1>>

C16_Witness ==
    /\ Len(loader) = 3
    /\ ppc = "last"
    /\ trace = << <<"transfer", 1>>, <<"wait", 1>>, <<"transfer", 2>>,
                  <<"yield", 1>>, <<"wait", 2>>, <<"transfer", 3>>,
                  <<"yield", 2>>, <<"wait", 3>>, <<"yield", 3>> >>

\* C17: what the step function prints goes to devnull on every rank but 0
\* and to the streams as they were on rank 0; after the call, returned or
\* raised, both streams are what they were before it.
C17_OutputSuppressed ==
    /\ spc = "call" =>
          IF srank = 0
          THEN <<sys_stdout, sys_stderr>> = before
          ELSE sys_stdout = devnull /\ sys_stderr = devnull
    /\ \A w \in written :
          w[2] = IF srank = 0
                 THEN (IF w[1] = "stdout" THEN before[1] ELSE before[2])
                 ELSE devnull
    /\ spc = "after" => <<sys_stdout, sys_stderr>> = before

C17_Witness ==
    /\ srank # 0
    /\ spc = "after"
    /\ outcome = "raised"
    /\ before = <<"file", "pipe">>
    /\ written = {<<"stdout", devnull>>, <<"stderr", devnull>>}
    /\ sys_stdout = "file" /\ sys_stderr = "pipe"

\* C18: when the drain loop of an iteration has ended with world_size
\* sentinels counted, the buffer is empty and every result put is part of
\* an aggregate that was yielded.
C18_NoResultDropped ==
    (mode = "iter" /\ exitKind = "complete") =>
        (buffer = <<>> /\ puts = world_size * Len(yielded))

\* C19: when a drain loop has ended with world_size sentinels counted, the
\* queue is empty.
C19_QueueDrained == exitKind = "complete" => queue = <<>>

\* C20: every sentinel a run has counted and every result it has buffered
\* or aggregated was put by a worker of that run.
C20_RunsIsolated ==
    /\ \A from \in seen : from[1] = run
    /\ \A i \in 1..Len(bsrc) : bsrc[i][1] = run
    /\ \A k \in 1..Len(ysrc) : \A from \in ysrc[k] : from[1] = run

====
